---- MODULE Spec2Model ----
(***************************************************************************)
(* Model of mbed-os-example-cellular (src/main.cpp).                       *)
(*                                                                         *)
(* Threads: "main" runs main() -> do_connect() -> test_send_recv();        *)
(* "dot" runs dot_event() (only built when MBED_CONF_MBED_TRACE_ENABLE is  *)
(* 0); "lib" stands for the threads of the cellular stack that emit        *)
(* mbed-trace lines through the registered trace_wait / trace_release      *)
(* callbacks (only when MBED_CONF_MBED_TRACE_ENABLE is 1).                 *)
(*                                                                         *)
(* The cellular interface and the socket are external collaborators: each  *)
(* call returns a nondeterministically chosen result.                      *)
(***************************************************************************)
EXTENDS Integers, Sequences, FiniteSets, TLC

\* ---------------------------------------------------------------- bounds
\* dots of the Progress Indicator that are recorded in its console output
MaxDots == 2
\* trace lines the cellular stack's own threads may emit
MaxLibTraces == 2

\* ------------------------------------------------------ program constants
RETRY_COUNT == 3
RECV_BUF_SIZE == 4
RECV_TIMEOUT_MS == 15000

\* nsapi_error_t values used by the program (mbed-os nsapi_types.h)
NSAPI_ERROR_OK == 0
NSAPI_ERROR_NO_CONNECTION == -3004
NSAPI_ERROR_NO_SOCKET == -3005
NSAPI_ERROR_DNS_FAILURE == -3009
NSAPI_ERROR_AUTH_FAILURE == -3011
NSAPI_ERROR_DEVICE_ERROR == -3012
NSAPI_ERROR_WOULD_BLOCK == -3001

\* a function's return value: <<>> until the function has returned, then <<value>>
NotReturned == <<>>
Returned(v) == <<v>>

Threads == {"main", "dot", "lib"}

\* results the external calls may produce
ConnectResults ==
    {NSAPI_ERROR_OK, NSAPI_ERROR_AUTH_FAILURE, NSAPI_ERROR_NO_CONNECTION, NSAPI_ERROR_DEVICE_ERROR}
OpenResults == {NSAPI_ERROR_OK, NSAPI_ERROR_NO_SOCKET}
ResolveResults == {NSAPI_ERROR_OK, NSAPI_ERROR_DNS_FAILURE}
SockConnectResults == {NSAPI_ERROR_OK, NSAPI_ERROR_NO_CONNECTION}
SendResults == {RECV_BUF_SIZE, NSAPI_ERROR_WOULD_BLOCK}
RecvResults == {RECV_BUF_SIZE, 0, NSAPI_ERROR_WOULD_BLOCK}

VARIABLES
    traceEnable,    \* MBED_CONF_MBED_TRACE_ENABLE
    sockType,       \* MBED_CONF_APP_SOCK_TYPE: "TCP" or "UDP"
    pc,             \* position of each thread
    pstep,          \* position of each thread relative to the trace_mutex critical section
    trace_mutex,    \* owner of trace_mutex, or "none"
    connected,      \* iface.is_connected()
    cfg,            \* interface configuration calls made so far
    retcode,        \* do_connect: retcode (0 stands for its unread initial garbage)
    retry_counter,  \* do_connect: retry_counter (uint8_t)
    dc_ret,         \* value returned by do_connect
    print_text,     \* the shared print_text buffer
    sock,           \* socket state: "new", "open", "closed"
    sockTimeout,    \* sock.set_timeout value
    t_retcode,      \* test_send_recv: retcode
    n,              \* test_send_recv: n
    recv_buf,       \* number of bytes written into recv_buf
    tsr_ret,        \* value returned by test_send_recv
    exitCode,       \* value returned by main
    out,            \* console output of each thread, in order
    calls,          \* interface and socket calls made by main, in order, with results
    traceInits,     \* number of mbed_trace_init calls
    traceFrees,     \* number of mbed_trace_free calls
    libTraces       \* trace lines emitted by the cellular stack's threads

vars == <<traceEnable, sockType, pc, pstep, trace_mutex, connected, cfg, retcode,
          retry_counter, dc_ret, print_text, sock, sockTimeout, t_retcode, n, recv_buf,
          tsr_ret, exitCode, out, calls, traceInits, traceFrees, libTraces>>

\* variable groups for UNCHANGED
buildVars == <<traceEnable, sockType>>
connVars == <<retcode, retry_counter, dc_ret>>
echoVars == <<sock, sockTimeout, t_retcode, n, recv_buf, tsr_ret>>
traceVars == <<traceInits, traceFrees, libTraces>>

\* ---------------------------------------------------------------- helpers
Msg(text, arg) == [text |-> text, arg |-> arg]
Call(op, ret) == [op |-> op, ret |-> ret]
NoText == Msg("", 0)

Goto(t, l) == pc' = [pc EXCEPT ![t] = l]

\* the messages of the program
BANNER == "mbed-os-example-cellular"
PIN_SET == "PIN code set"
ESTABLISHING == "Establishing connection"
DOT == "."
AUTH_FAILURE == "Authentication Failure. Exiting application"
FATAL_FAILURE == "Fatal connection failure: %d"
WILL_RETRY == "Couldn't connect: %d, will retry"
ESTABLISHED == "Connection Established."
OPEN_FAILS == "Socket.open() fails, code: %d"
RESOLVE_FAILS == "Couldn't resolve remote host: %s, code: %d"
TCP_CONNECT_FAILS == "TCPSocket.connect() fails, code: %d"
TCP_CONNECTED == "TCP: connected with %s server"
TCP_SEND_FAILS == "TCPSocket.send() fails, code: %d"
TCP_SENT == "TCP: Sent %d Bytes to %s"
UDP_SEND_FAILS == "UDPSocket.sendto() fails, code: %d"
UDP_SENT == "UDP: Sent %d Bytes to %s"
RECEIVED == "Received from echo server %d Bytes"
SUCCESS == "Success. Exiting"
FAILURE == "Failure. Exiting"

\* ------------------------------------------------------------------- Init
Init ==
    /\ traceEnable \in BOOLEAN
    /\ sockType \in {"TCP", "UDP"}
    /\ pc = [t \in Threads |-> CASE t = "main" -> "m_trace_open"
                                 [] t = "dot" -> "d_idle"
                                 [] OTHER -> "l_run"]
    /\ pstep = [t \in Threads |-> "out"]
    /\ trace_mutex = "none"
    /\ connected \in BOOLEAN
    /\ cfg = {}
    /\ retcode = 0
    /\ retry_counter = 0
    /\ dc_ret = NotReturned
    /\ print_text = NoText
    /\ sock = "new"
    /\ sockTimeout = 0
    /\ t_retcode = 0
    /\ n = 0
    /\ recv_buf = 0
    /\ tsr_ret = NotReturned
    /\ exitCode = NotReturned
    /\ out = [t \in Threads |-> <<>>]
    /\ calls = <<>>
    /\ traceInits = 0
    /\ traceFrees = 0
    /\ libTraces = 0

\* ------------------------------------------------- print_function (107-113)
\* trace_mutex.lock() succeeds only when the mutex is free
MutexAvailableNoCheck(m) == TRUE
MutexAvailable(m) == m = "none"

\* the labels at which a thread calls print_function, with the argument passed
\* and the label the thread continues at
PrintSite(l) ==
    CASE l = "m_banner" -> [msg |-> Msg(BANNER, 0), next |-> "m_modem_debug"]
      [] l = "m_pin_print" -> [msg |-> Msg(PIN_SET, 0), next |-> "m_set_credentials"]
      [] l = "m_est_print" -> [msg |-> Msg(ESTABLISHING, 0), next |-> "m_dot_start"]
      [] l = "d_print" -> [msg |-> Msg(DOT, 0), next |-> "d_wait"]
      [] l = "c_auth_print" -> [msg |-> Msg(AUTH_FAILURE, 0), next |-> "c_return_err"]
      [] l = "c_fatal_print" -> [msg |-> print_text, next |-> "c_return_err"]
      [] l = "c_retry_print" -> [msg |-> print_text, next |-> "c_retry_inc"]
      [] l = "c_est_print" -> [msg |-> Msg(ESTABLISHED, 0), next |-> "c_tr_info"]
      [] l = "t_open_fail_print" -> [msg |-> print_text, next |-> "t_return_fail"]
      [] l = "t_resolve_fail_print" -> [msg |-> print_text, next |-> "t_return_fail"]
      [] l = "t_connect_fail_print" -> [msg |-> print_text, next |-> "t_return_fail"]
      [] l = "t_connected_print" -> [msg |-> print_text, next |-> "t_send"]
      [] l = "t_send_fail_print" -> [msg |-> print_text, next |-> "t_return_fail"]
      [] l = "t_sent_print" -> [msg |-> print_text, next |-> "t_recv"]
      [] l = "t_received_print" -> [msg |-> print_text, next |-> "t_return_ok"]
      [] l = "m_success_print" -> [msg |-> Msg(SUCCESS, 0), next |-> "m_trace_close_ok"]
      [] l = "m_failure_print" -> [msg |-> Msg(FAILURE, 0), next |-> "m_trace_close_fail"]

PrintLabels ==
    {"m_banner", "m_pin_print", "m_est_print", "d_print", "c_auth_print", "c_fatal_print",
     "c_retry_print", "c_est_print", "t_open_fail_print", "t_resolve_fail_print",
     "t_connect_fail_print", "t_connected_print", "t_send_fail_print", "t_sent_print",
     "t_received_print", "m_success_print", "m_failure_print"}

\* The console output of a thread with msg written to it.  The Progress
\* Indicator's loop is unbounded: only its first MaxDots dots are recorded.
Record(t, written, msg) ==
    IF t = "dot" /\ Len(written) >= MaxDots THEN written ELSE Append(written, msg)

\* line 109: trace_mutex.lock()
PrintLock(t) ==
    /\ pc[t] \in PrintLabels
    /\ pstep[t] = "out"
    /\ MutexAvailable(trace_mutex)
    /\ trace_mutex' = t
    /\ pstep' = [pstep EXCEPT ![t] = "locked"]
    /\ UNCHANGED <<buildVars, pc, connected, cfg, connVars, print_text, echoVars, exitCode,
                   out, calls, traceVars>>

\* lines 110-111: printf("%s", input_string); fflush(NULL)
PrintOut(t) ==
    /\ pc[t] \in PrintLabels
    /\ pstep[t] = "locked"
    /\ out' = [out EXCEPT ![t] = Record(t, @, PrintSite(pc[t]).msg)]
    /\ pstep' = [pstep EXCEPT ![t] = "printed"]
    /\ UNCHANGED <<buildVars, pc, trace_mutex, connected, cfg, connVars, print_text, echoVars,
                   exitCode, calls, traceVars>>

\* print_function returning without trace_mutex.unlock()
PrintUnlockKeepsLock(t) ==
    /\ pc[t] \in PrintLabels
    /\ pstep[t] = "printed"
    /\ pstep' = [pstep EXCEPT ![t] = "out"]
    /\ Goto(t, PrintSite(pc[t]).next)
    /\ UNCHANGED <<buildVars, trace_mutex, connected, cfg, connVars, print_text, echoVars,
                   exitCode, out, calls, traceVars>>

\* line 112: trace_mutex.unlock(), and the return to the caller
PrintUnlock(t) ==
    /\ pc[t] \in PrintLabels
    /\ pstep[t] = "printed"
    /\ trace_mutex' = "none"
    /\ pstep' = [pstep EXCEPT ![t] = "out"]
    /\ Goto(t, PrintSite(pc[t]).next)
    /\ UNCHANGED <<buildVars, connected, cfg, connVars, print_text, echoVars, exitCode, out,
                   calls, traceVars>>

\* ------------------------------------- trace_wait / trace_release (83-91)
\* A thread emits an mbed-trace line: mbed-trace calls trace_wait, writes the
\* line, and calls trace_release.  "main" does so for tr_info (line 159).
TraceWait(t) ==
    /\ traceEnable
    /\ traceInits > traceFrees
    /\ \/ t = "main" /\ pc[t] = "c_tr_info"
       \/ t = "lib" /\ pc[t] = "l_run" /\ libTraces < MaxLibTraces
    /\ pstep[t] = "out"
    /\ MutexAvailable(trace_mutex)
    /\ trace_mutex' = t
    /\ pstep' = [pstep EXCEPT ![t] = "locked"]
    /\ UNCHANGED <<buildVars, pc, connected, cfg, connVars, print_text, echoVars, exitCode,
                   out, calls, traceVars>>

TraceRelease(t) ==
    /\ pc[t] \in {"c_tr_info", "l_run"}
    /\ pstep[t] = "locked"
    /\ trace_mutex' = "none"
    /\ pstep' = [pstep EXCEPT ![t] = "out"]
    /\ IF t = "main"
          THEN Goto(t, "c_return_ok") /\ UNCHANGED libTraces
          ELSE libTraces' = libTraces + 1 /\ UNCHANGED pc
    /\ UNCHANGED <<buildVars, connected, cfg, connVars, print_text, echoVars, exitCode, out,
                   calls, traceInits, traceFrees>>

\* ------------------------------------------------------ dot_event (116-126)
\* line 119: wait(4)
DotWait ==
    /\ pc["dot"] = "d_wait"
    /\ Goto("dot", "d_check")
    /\ UNCHANGED <<buildVars, pstep, trace_mutex, connected, cfg, connVars, print_text,
                   echoVars, exitCode, out, calls, traceVars>>

\* the test of line 120: print another dot?
DotKeepsPollingAlways(c) == TRUE
DotKeepsPollingInverted(c) == c
DotKeepsPolling(c) == ~c

\* dot_event formatting its dot into the shared print_text buffer
DotCheckFormatsDot ==
    /\ pc["dot"] = "d_check"
    /\ IF DotKeepsPolling(connected)
          THEN Goto("dot", "d_print") /\ print_text' = Msg(DOT, 0)
          ELSE Goto("dot", "d_done") /\ UNCHANGED print_text
    /\ UNCHANGED <<buildVars, pstep, trace_mutex, connected, cfg, connVars, echoVars,
                   exitCode, out, calls, traceVars>>

\* lines 120-124: if (!iface.is_connected()) print_function(".") else break
DotCheck ==
    /\ pc["dot"] = "d_check"
    /\ IF DotKeepsPolling(connected) THEN Goto("dot", "d_print") ELSE Goto("dot", "d_done")
    /\ UNCHANGED <<buildVars, pstep, trace_mutex, connected, cfg, connVars, print_text,
                   echoVars, exitCode, out, calls, traceVars>>

\* ----------------------------------------------------- do_connect (132-162)
\* line 135: uint8_t retry_counter = 0
DcEntry ==
    /\ pc["main"] = "c_entry"
    /\ retry_counter' = 0
    /\ Goto("main", "c_while")
    /\ UNCHANGED <<buildVars, pstep, trace_mutex, connected, cfg, retcode, dc_ret, print_text,
                   echoVars, exitCode, out, calls, traceVars>>

\* a loop that calls iface.connect() without looking at is_connected()
DcWhileIgnoresState ==
    /\ pc["main"] = "c_while"
    /\ Goto("main", "c_connect")
    /\ UNCHANGED <<buildVars, pstep, trace_mutex, connected, cfg, connVars, print_text,
                   echoVars, exitCode, out, calls, traceVars>>

\* line 137: while (!iface.is_connected())
DcWhile ==
    /\ pc["main"] = "c_while"
    /\ IF connected THEN Goto("main", "c_est_print") ELSE Goto("main", "c_connect")
    /\ UNCHANGED <<buildVars, pstep, trace_mutex, connected, cfg, connVars, print_text,
                   echoVars, exitCode, out, calls, traceVars>>

\* lines 140-152: which branch a connect result takes
ClassifyAuthRetried(rc, counter) ==
    IF rc # NSAPI_ERROR_OK /\ counter > RETRY_COUNT THEN "fatal"
    ELSE IF rc # NSAPI_ERROR_OK THEN "retry"
    ELSE "ok"
ClassifyNeverFatal(rc, counter) ==
    IF rc = NSAPI_ERROR_AUTH_FAILURE THEN "auth"
    ELSE IF rc # NSAPI_ERROR_OK THEN "retry"
    ELSE "ok"
Classify(rc, counter) ==
    IF rc = NSAPI_ERROR_AUTH_FAILURE THEN "auth"
    ELSE IF rc # NSAPI_ERROR_OK /\ counter > RETRY_COUNT THEN "fatal"
    ELSE IF rc # NSAPI_ERROR_OK THEN "retry"
    ELSE "ok"

\* lines 139-154: retcode = iface.connect(), the branch taken, and its snprintf.
\* The interface chooses the result and whether it is connected afterwards.
DcConnect ==
    /\ pc["main"] = "c_connect"
    /\ \E r \in ConnectResults, c \in BOOLEAN :
          /\ retcode' = r
          /\ connected' = c
          /\ calls' = Append(calls, Call("iface.connect", r))
          /\ LET branch == Classify(r, retry_counter) IN
               CASE branch = "auth" ->
                      Goto("main", "c_auth_print") /\ UNCHANGED print_text
                 [] branch = "fatal" ->
                      Goto("main", "c_fatal_print") /\ print_text' = Msg(FATAL_FAILURE, r)
                 [] branch = "retry" ->
                      Goto("main", "c_retry_print") /\ print_text' = Msg(WILL_RETRY, r)
                 [] OTHER ->
                      Goto("main", "c_est_print") /\ UNCHANGED print_text
    /\ UNCHANGED <<buildVars, pstep, trace_mutex, cfg, retry_counter, dc_ret, echoVars,
                   exitCode, out, traceVars>>

\* lines 150-151: retry_counter++; continue
DcRetryInc ==
    /\ pc["main"] = "c_retry_inc"
    /\ retry_counter' = (retry_counter + 1) % 256
    /\ Goto("main", "c_while")
    /\ UNCHANGED <<buildVars, pstep, trace_mutex, connected, cfg, retcode, dc_ret, print_text,
                   echoVars, exitCode, out, calls, traceVars>>

\* line 159 with tracing compiled out: tr_info expands to nothing
DcTrInfoSkip ==
    /\ pc["main"] = "c_tr_info"
    /\ ~traceEnable
    /\ Goto("main", "c_return_ok")
    /\ UNCHANGED <<buildVars, pstep, trace_mutex, connected, cfg, connVars, print_text,
                   echoVars, exitCode, out, calls, traceVars>>

\* lines 142, 146: return retcode
DcReturnErr ==
    /\ pc["main"] = "c_return_err"
    /\ dc_ret' = Returned(retcode)
    /\ Goto("main", "m_check_connect")
    /\ UNCHANGED <<buildVars, pstep, trace_mutex, connected, cfg, retcode, retry_counter,
                   print_text, echoVars, exitCode, out, calls, traceVars>>

\* line 161: return NSAPI_ERROR_OK
DcReturnOk ==
    /\ pc["main"] = "c_return_ok"
    /\ dc_ret' = Returned(NSAPI_ERROR_OK)
    /\ Goto("main", "m_check_connect")
    /\ UNCHANGED <<buildVars, pstep, trace_mutex, connected, cfg, retcode, retry_counter,
                   print_text, echoVars, exitCode, out, calls, traceVars>>

\* ------------------------------------------------- test_send_recv (168-244)
\* the failure tests of lines 177, 185, 200, 209/223 and the success test of 237
OpenFailed(r) == r # NSAPI_ERROR_OK
ResolveFailedNever(r) == FALSE
ResolveFailed(r) == r # NSAPI_ERROR_OK
SockConnectFailed(r) == r < 0
SendFailed(r) == r < 0
ReceivedSomethingOrNothing(cnt) == cnt >= 0
ReceivedMoreThanFits(cnt) == cnt > RECV_BUF_SIZE
ReceivedSomething(cnt) == cnt > 0

\* sock.close() (line 235)
SocketClose(s) == "closed"

\* ~TCPSocket() / ~UDPSocket(), run when the automatic object sock (lines 171-175)
\* goes out of scope at a return: the mbed-os socket destructor closes a socket
\* that is still open
SocketDestroyLeavesOpen(s) == s
SocketDestroy(s) == IF s = "open" THEN "closed" ELSE s

\* lines 176-181: retcode = sock.open(&iface)
TsrOpen ==
    /\ pc["main"] = "t_open"
    /\ \E r \in OpenResults :
          /\ t_retcode' = r
          /\ calls' = Append(calls, Call("sock.open", r))
          /\ IF OpenFailed(r)
                THEN /\ print_text' = Msg(OPEN_FAILS, r)
                     /\ Goto("main", "t_open_fail_print")
                     /\ UNCHANGED sock
                ELSE /\ sock' = "open"
                     /\ Goto("main", "t_resolve")
                     /\ UNCHANGED print_text
    /\ UNCHANGED <<buildVars, pstep, trace_mutex, connected, cfg, connVars, sockTimeout, n,
                   recv_buf, tsr_ret, exitCode, out, traceVars>>

\* lines 183-190: retcode = iface.gethostbyname(host_name, &sock_addr)
TsrResolve ==
    /\ pc["main"] = "t_resolve"
    /\ \E r \in ResolveResults :
          /\ t_retcode' = r
          /\ calls' = Append(calls, Call("iface.gethostbyname", r))
          /\ IF ResolveFailed(r)
                THEN /\ print_text' = Msg(RESOLVE_FAILS, r)
                     /\ Goto("main", "t_resolve_fail_print")
                ELSE /\ Goto("main", "t_setup")
                     /\ UNCHANGED print_text
    /\ UNCHANGED <<buildVars, pstep, trace_mutex, connected, cfg, connVars, sock, sockTimeout,
                   n, recv_buf, tsr_ret, exitCode, out, traceVars>>

\* lines 192-197: set_port, set_timeout(15000), n = 0
TsrSetup ==
    /\ pc["main"] = "t_setup"
    /\ sockTimeout' = RECV_TIMEOUT_MS
    /\ n' = 0
    /\ IF sockType = "TCP" THEN Goto("main", "t_connect") ELSE Goto("main", "t_send")
    /\ UNCHANGED <<buildVars, pstep, trace_mutex, connected, cfg, connVars, print_text, sock,
                   t_retcode, recv_buf, tsr_ret, exitCode, out, calls, traceVars>>

\* lines 199-207 (TCP): retcode = sock.connect(sock_addr)
TsrTcpConnect ==
    /\ pc["main"] = "t_connect"
    /\ \E r \in SockConnectResults :
          /\ t_retcode' = r
          /\ calls' = Append(calls, Call("sock.connect", r))
          /\ IF SockConnectFailed(r)
                THEN /\ print_text' = Msg(TCP_CONNECT_FAILS, r)
                     /\ Goto("main", "t_connect_fail_print")
                ELSE /\ print_text' = Msg(TCP_CONNECTED, 0)
                     /\ Goto("main", "t_connected_print")
    /\ UNCHANGED <<buildVars, pstep, trace_mutex, connected, cfg, connVars, sock, sockTimeout,
                   n, recv_buf, tsr_ret, exitCode, out, traceVars>>

\* lines 208-216 (TCP): retcode = sock.send(echo_string, sizeof(echo_string))
TsrTcpSend ==
    /\ pc["main"] = "t_send"
    /\ sockType = "TCP"
    /\ \E r \in SendResults :
          /\ t_retcode' = r
          /\ calls' = Append(calls, Call("sock.send", r))
          /\ IF SendFailed(r)
                THEN /\ print_text' = Msg(TCP_SEND_FAILS, r)
                     /\ Goto("main", "t_send_fail_print")
                ELSE /\ print_text' = Msg(TCP_SENT, r)
                     /\ Goto("main", "t_sent_print")
    /\ UNCHANGED <<buildVars, pstep, trace_mutex, connected, cfg, connVars, sock, sockTimeout,
                   n, recv_buf, tsr_ret, exitCode, out, traceVars>>

\* lines 221-230 (UDP): retcode = sock.sendto(sock_addr, echo_string, sizeof(echo_string))
TsrUdpSendto ==
    /\ pc["main"] = "t_send"
    /\ sockType = "UDP"
    /\ \E r \in SendResults :
          /\ t_retcode' = r
          /\ calls' = Append(calls, Call("sock.sendto", r))
          /\ IF SendFailed(r)
                THEN /\ print_text' = Msg(UDP_SEND_FAILS, r)
                     /\ Goto("main", "t_send_fail_print")
                ELSE /\ print_text' = Msg(UDP_SENT, r)
                     /\ Goto("main", "t_sent_print")
    /\ UNCHANGED <<buildVars, pstep, trace_mutex, connected, cfg, connVars, sock, sockTimeout,
                   n, recv_buf, tsr_ret, exitCode, out, traceVars>>

\* line 218 (TCP) / line 232 (UDP): n = sock.recv(recv_buf, 4) / sock.recvfrom(...)
TsrRecv ==
    /\ pc["main"] = "t_recv"
    /\ \E r \in RecvResults :
          /\ n' = r
          /\ recv_buf' = IF r > 0 THEN r ELSE recv_buf
          /\ calls' = Append(calls, Call(IF sockType = "TCP" THEN "sock.recv"
                                                             ELSE "sock.recvfrom", r))
    /\ Goto("main", "t_close")
    /\ UNCHANGED <<buildVars, pstep, trace_mutex, connected, cfg, connVars, print_text, sock,
                   sockTimeout, t_retcode, tsr_ret, exitCode, out, traceVars>>

\* line 235: sock.close()
TsrClose ==
    /\ pc["main"] = "t_close"
    /\ sock' = SocketClose(sock)
    /\ calls' = Append(calls, Call("sock.close", 0))
    /\ Goto("main", "t_check_n")
    /\ UNCHANGED <<buildVars, pstep, trace_mutex, connected, cfg, connVars, print_text,
                   sockTimeout, t_retcode, n, recv_buf, tsr_ret, exitCode, out, traceVars>>

\* lines 237-243: if (n > 0) { snprintf; print; return 0 } return -1
TsrCheckN ==
    /\ pc["main"] = "t_check_n"
    /\ IF ReceivedSomething(n)
          THEN /\ print_text' = Msg(RECEIVED, n)
               /\ Goto("main", "t_received_print")
          ELSE /\ Goto("main", "t_return_fail")
               /\ UNCHANGED print_text
    /\ UNCHANGED <<buildVars, pstep, trace_mutex, connected, cfg, connVars, echoVars,
                   exitCode, out, calls, traceVars>>

\* lines 180, 189, 203, 212/226, 243: return -1 (sock goes out of scope)
TsrReturnFail ==
    /\ pc["main"] = "t_return_fail"
    /\ sock' = SocketDestroy(sock)
    /\ tsr_ret' = Returned(-1)
    /\ Goto("main", "m_check_echo")
    /\ UNCHANGED <<buildVars, pstep, trace_mutex, connected, cfg, connVars, print_text,
                   sockTimeout, t_retcode, n, recv_buf, exitCode, out, calls, traceVars>>

\* line 240: return 0 (sock goes out of scope)
TsrReturnOk ==
    /\ pc["main"] = "t_return_ok"
    /\ sock' = SocketDestroy(sock)
    /\ tsr_ret' = Returned(0)
    /\ Goto("main", "m_check_echo")
    /\ UNCHANGED <<buildVars, pstep, trace_mutex, connected, cfg, connVars, print_text,
                   sockTimeout, t_retcode, n, recv_buf, exitCode, out, calls, traceVars>>

\* ----------------------------------------------------------- main (246-281)
\* line 248: trace_open() (lines 93-98)
MTraceOpen ==
    /\ pc["main"] = "m_trace_open"
    /\ traceInits' = traceInits + 1
    /\ Goto("main", "m_banner")
    /\ UNCHANGED <<buildVars, pstep, trace_mutex, connected, cfg, connVars, print_text,
                   echoVars, exitCode, out, calls, traceFrees, libTraces>>

\* line 252: iface.modem_debug_on(MBED_CONF_APP_MODEM_TRACE)
MModemDebug ==
    /\ pc["main"] = "m_modem_debug"
    /\ cfg' = cfg \cup {"modem_debug_on"}
    /\ Goto("main", "m_set_sim_pin")
    /\ UNCHANGED <<buildVars, pstep, trace_mutex, connected, connVars, print_text, echoVars,
                   exitCode, out, calls, traceVars>>

\* line 255: iface.set_sim_pin(MBED_CONF_APP_CELLULAR_SIM_PIN)
MSetSimPin ==
    /\ pc["main"] = "m_set_sim_pin"
    /\ cfg' = cfg \cup {"set_sim_pin"}
    /\ Goto("main", "m_pin_print")
    /\ UNCHANGED <<buildVars, pstep, trace_mutex, connected, connVars, print_text, echoVars,
                   exitCode, out, calls, traceVars>>

\* line 259: iface.set_credentials(APN, USERNAME, PASSWORD)
MSetCredentials ==
    /\ pc["main"] = "m_set_credentials"
    /\ cfg' = cfg \cup {"set_credentials"}
    /\ Goto("main", "m_est_print")
    /\ UNCHANGED <<buildVars, pstep, trace_mutex, connected, connVars, print_text, echoVars,
                   exitCode, out, calls, traceVars>>

\* lines 263-265: dot_thread.start(dot_event), built only without tracing
MDotStart ==
    /\ pc["main"] = "m_dot_start"
    /\ IF traceEnable
          THEN Goto("main", "c_entry")
          ELSE pc' = [pc EXCEPT !["main"] = "c_entry", !["dot"] = "d_wait"]
    /\ UNCHANGED <<buildVars, pstep, trace_mutex, connected, cfg, connVars, print_text,
                   echoVars, exitCode, out, calls, traceVars>>

\* the tests of lines 268 and 270
ConnectSucceededAlways(r) == TRUE
ConnectSucceeded(r) == r = Returned(NSAPI_ERROR_OK)
EchoSucceededAlways(r) == TRUE
EchoSucceeded(r) == r = Returned(NSAPI_ERROR_OK)

\* line 268: if (do_connect() == NSAPI_ERROR_OK)
MCheckConnect ==
    /\ pc["main"] = "m_check_connect"
    /\ IF ConnectSucceeded(dc_ret) THEN Goto("main", "t_open")
                                   ELSE Goto("main", "m_failure_print")
    /\ UNCHANGED <<buildVars, pstep, trace_mutex, connected, cfg, connVars, print_text,
                   echoVars, exitCode, out, calls, traceVars>>

\* lines 269-270: retcode = test_send_recv(); if (retcode == NSAPI_ERROR_OK)
MCheckEcho ==
    /\ pc["main"] = "m_check_echo"
    /\ IF EchoSucceeded(tsr_ret) THEN Goto("main", "m_success_print")
                                 ELSE Goto("main", "m_failure_print")
    /\ UNCHANGED <<buildVars, pstep, trace_mutex, connected, cfg, connVars, print_text,
                   echoVars, exitCode, out, calls, traceVars>>

\* main returning without trace_close()
MTraceCloseSkipped ==
    /\ pc["main"] \in {"m_trace_close_ok", "m_trace_close_fail"}
    /\ Goto("main", IF pc["main"] = "m_trace_close_ok" THEN "m_return_ok" ELSE "m_return_fail")
    /\ UNCHANGED <<buildVars, pstep, trace_mutex, connected, cfg, connVars, print_text,
                   echoVars, exitCode, out, calls, traceVars>>

\* lines 272, 279: trace_close() (lines 100-103)
MTraceClose ==
    /\ pc["main"] \in {"m_trace_close_ok", "m_trace_close_fail"}
    /\ traceFrees' = traceFrees + 1
    /\ Goto("main", IF pc["main"] = "m_trace_close_ok" THEN "m_return_ok" ELSE "m_return_fail")
    /\ UNCHANGED <<buildVars, pstep, trace_mutex, connected, cfg, connVars, print_text,
                   echoVars, exitCode, out, calls, traceInits, libTraces>>

\* line 273: return 0
MReturnOk ==
    /\ pc["main"] = "m_return_ok"
    /\ exitCode' = Returned(0)
    /\ Goto("main", "done")
    /\ UNCHANGED <<buildVars, pstep, trace_mutex, connected, cfg, connVars, print_text,
                   echoVars, out, calls, traceVars>>

\* line 280: return -1
MReturnFail ==
    /\ pc["main"] = "m_return_fail"
    /\ exitCode' = Returned(-1)
    /\ Goto("main", "done")
    /\ UNCHANGED <<buildVars, pstep, trace_mutex, connected, cfg, connVars, print_text,
                   echoVars, out, calls, traceVars>>

\* ---------------------------------------------------------- specification
Next ==
    \/ \E t \in {"main", "dot"} : PrintLock(t)
    \/ \E t \in {"main", "dot"} : PrintOut(t)
    \/ \E t \in {"main", "dot"} : PrintUnlock(t)
    \/ \E t \in {"main", "lib"} : TraceWait(t)
    \/ \E t \in {"main", "lib"} : TraceRelease(t)
    \/ DotWait
    \/ DotCheck
    \/ DcEntry
    \/ DcWhile
    \/ DcConnect
    \/ DcRetryInc
    \/ DcTrInfoSkip
    \/ DcReturnErr
    \/ DcReturnOk
    \/ TsrOpen
    \/ TsrResolve
    \/ TsrSetup
    \/ TsrTcpConnect
    \/ TsrTcpSend
    \/ TsrUdpSendto
    \/ TsrRecv
    \/ TsrClose
    \/ TsrCheckN
    \/ TsrReturnFail
    \/ TsrReturnOk
    \/ MTraceOpen
    \/ MModemDebug
    \/ MSetSimPin
    \/ MSetCredentials
    \/ MDotStart
    \/ MCheckConnect
    \/ MCheckEcho
    \/ MTraceClose
    \/ MReturnOk
    \/ MReturnFail

Spec == Init /\ [][Next]_vars

\* The steps of each thread.  The RTOS schedules its threads preemptively, so a
\* thread that can run eventually does, and a thread blocked in
\* trace_mutex.lock() gets the mutex when it is released often enough.
MainNext ==
    \/ PrintLock("main") \/ PrintOut("main") \/ PrintUnlock("main")
    \/ TraceWait("main") \/ TraceRelease("main")
    \/ DcEntry \/ DcWhile \/ DcConnect \/ DcRetryInc \/ DcTrInfoSkip \/ DcReturnErr
    \/ DcReturnOk
    \/ TsrOpen \/ TsrResolve \/ TsrSetup \/ TsrTcpConnect \/ TsrTcpSend \/ TsrUdpSendto
    \/ TsrRecv \/ TsrClose \/ TsrCheckN \/ TsrReturnFail \/ TsrReturnOk
    \/ MTraceOpen \/ MModemDebug \/ MSetSimPin \/ MSetCredentials \/ MDotStart
    \/ MCheckConnect \/ MCheckEcho \/ MTraceClose \/ MReturnOk \/ MReturnFail

DotNext ==
    \/ PrintLock("dot") \/ PrintOut("dot") \/ PrintUnlock("dot")
    \/ DotWait \/ DotCheck

LiveSpec ==
    /\ Spec
    /\ WF_vars(MainNext)
    /\ WF_vars(DotNext)
    /\ SF_vars(PrintLock("main") \/ TraceWait("main"))
    /\ SF_vars(PrintLock("dot"))

\* ------------------------------------------------------------- type check
TypeOK ==
    /\ traceEnable \in BOOLEAN
    /\ sockType \in {"TCP", "UDP"}
    /\ trace_mutex \in Threads \cup {"none"}
    /\ connected \in BOOLEAN
    /\ retry_counter \in 0..255
    /\ sock \in {"new", "open", "closed"}
    /\ Len(out["dot"]) <= MaxDots
    /\ libTraces <= MaxLibTraces

\* ------------------------------------------------- vocabulary of the claims
\* the history of iface.connect() calls and of the echo transaction's calls
IsConnectCall(c) == c.op = "iface.connect"
ConnectCalls == SelectSeq(calls, IsConnectCall)
IsEchoCall(c) == c.op # "iface.connect"
EchoCalls == SelectSeq(calls, IsEchoCall)

Retryable(r) == r # NSAPI_ERROR_OK /\ r # NSAPI_ERROR_AUTH_FAILURE

\* what the main thread has printed
MainPrinted(text) == \E i \in 1..Len(out["main"]) : out["main"][i].text = text
TimesMainPrinted(text) == Cardinality({i \in 1..Len(out["main"]) : out["main"][i].text = text})
LastMainText == out["main"][Len(out["main"])].text

\* the echo transaction made the call op
EchoCalled(op) == \E i \in 1..Len(EchoCalls) : EchoCalls[i].op = op
ReceiveCalled == EchoCalled("sock.recv") \/ EchoCalled("sock.recvfrom")
ReceiveResult ==
    EchoCalls[CHOOSE i \in 1..Len(EchoCalls) : EchoCalls[i].op \in {"sock.recv", "sock.recvfrom"}].ret

\* the order of the echo transaction's steps
EchoOrder ==
    IF sockType = "TCP"
       THEN <<"sock.open", "iface.gethostbyname", "sock.connect", "sock.send", "sock.recv",
              "sock.close">>
       ELSE <<"sock.open", "iface.gethostbyname", "sock.sendto", "sock.recvfrom", "sock.close">>

\* a step before the receive that failed
EchoStepFailed(c) ==
    \/ c.op \in {"sock.open", "iface.gethostbyname"} /\ c.ret # NSAPI_ERROR_OK
    \/ c.op \in {"sock.connect", "sock.send", "sock.sendto"} /\ c.ret < 0

\* the error messages of test_send_recv
EchoErrorTexts == {OPEN_FAILS, RESOLVE_FAILS, TCP_CONNECT_FAILS, TCP_SEND_FAILS, UDP_SEND_FAILS}

InCriticalSection(t) == pstep[t] # "out"

\* ------------------------------------------------------------------ claims

\* C1: whenever iface.connect() returns NSAPI_ERROR_AUTH_FAILURE, do_connect
\* returns that error at once, whatever retry_counter is: that call is the last
\* call the program makes (no further iface.connect(), no socket call),
\* retry_counter is not incremented for it, "Connection Established" is never
\* printed, and the value do_connect returns is NSAPI_ERROR_AUTH_FAILURE.
C1_AuthFailureReturnsImmediately ==
    \A i \in 1..Len(calls) :
        (IsConnectCall(calls[i]) /\ calls[i].ret = NSAPI_ERROR_AUTH_FAILURE) =>
            /\ i = Len(calls)
            /\ retry_counter = Len(ConnectCalls) - 1
            /\ ~MainPrinted(ESTABLISHED)
            /\ dc_ret \in {NotReturned, Returned(NSAPI_ERROR_AUTH_FAILURE)}
            /\ pc["main"] \in {"c_auth_print", "c_return_err", "m_check_connect",
                               "m_failure_print", "m_trace_close_fail", "m_return_fail",
                               "done"}

\* C1 witness: do_connect returned the authentication failure of its fifth
\* iface.connect() call, made with retry_counter = 4
C1_Witness ==
    /\ dc_ret = Returned(NSAPI_ERROR_AUTH_FAILURE)
    /\ retry_counter = RETRY_COUNT + 1
    /\ MainPrinted(AUTH_FAILURE)

\* C2: when every iface.connect() call returned the same retryable error and
\* the interface never reported connected, do_connect has returned that error
\* (the fatal failure) after exactly 4 calls, and main then returns -1.
C2_FatalAfterFourConnectCalls ==
    (/\ dc_ret # NotReturned
     /\ Len(ConnectCalls) >= 1
     /\ \A i \in 1..Len(ConnectCalls) :
           Retryable(ConnectCalls[i].ret) /\ ConnectCalls[i].ret = ConnectCalls[1].ret
     /\ MainPrinted(FATAL_FAILURE)) =>
        /\ Len(ConnectCalls) = RETRY_COUNT + 1
        /\ dc_ret = Returned(ConnectCalls[1].ret)
        /\ exitCode \in {NotReturned, Returned(-1)}

\* C3: every iface.connect() call that returned a non-success, non-auth error
\* has incremented retry_counter exactly once (outside the window between such a
\* call and its increment, the counter equals the number of such calls), and a
\* failing call made once the counter has exceeded 3 ends the loop with the
\* fatal error, returning the failing code.
C3_EveryFailedAttemptCounted ==
    /\ pc["main"] \notin {"c_retry_print", "c_retry_inc"} =>
          retry_counter =
              Cardinality({i \in 1..Len(ConnectCalls) : Retryable(ConnectCalls[i].ret)})
    /\ MainPrinted(FATAL_FAILURE) =>
          /\ retry_counter > RETRY_COUNT
          /\ dc_ret \in {NotReturned, Returned(ConnectCalls[Len(ConnectCalls)].ret)}

\* C4: whenever do_connect returns NSAPI_ERROR_OK, iface.is_connected() is true
\* at the moment of the return.
C4_OkReturnImpliesConnected ==
    (pc["main"] = "m_check_connect" /\ dc_ret = Returned(NSAPI_ERROR_OK)) => connected

\* C5: main returns 0 exactly when do_connect returned NSAPI_ERROR_OK and
\* test_send_recv returned 0, and -1 in every other run; the last message main
\* prints is "Success" exactly when it returns 0 and "Failure" otherwise, and
\* exactly one of the two is printed in a run.
C5_ExitCodeMatchesOutcome ==
    exitCode # NotReturned =>
        /\ exitCode \in {Returned(0), Returned(-1)}
        /\ exitCode = Returned(0) <=>
              (dc_ret = Returned(NSAPI_ERROR_OK) /\ tsr_ret = Returned(0))
        /\ LastMainText = (IF exitCode = Returned(0) THEN SUCCESS ELSE FAILURE)
        /\ TimesMainPrinted(SUCCESS) + TimesMainPrinted(FAILURE) = 1

\* C5 witness: main returned 0 after a successful connect and echo
C5_Witness ==
    /\ exitCode = Returned(0)
    /\ dc_ret = Returned(NSAPI_ERROR_OK)
    /\ tsr_ret = Returned(0)
    /\ LastMainText = SUCCESS

\* C6: when open, resolve, (TCP) connect and send all succeeded, so that the
\* receive call was made, test_send_recv returns 0 exactly when the receive
\* call returned a byte count > 0, and -1 when it returned 0 or an error.
C6_ResultDecidedByReceiveCount ==
    (tsr_ret # NotReturned /\ ReceiveCalled) =>
        /\ \A i \in 1..Len(EchoCalls) : ~EchoStepFailed(EchoCalls[i])
        /\ tsr_ret = Returned(0) <=> ReceiveResult > 0
        /\ ReceiveResult <= 0 => tsr_ret = Returned(-1)

\* C6 witness: the receive call returned 0 bytes and test_send_recv returned -1
C6_Witness ==
    /\ tsr_ret = Returned(-1)
    /\ ReceiveCalled
    /\ ReceiveResult = 0

\* C7: the echo transaction's calls are made in the order open, resolve,
\* (TCP only) connect, send, receive, close; a failed open, resolve, connect or
\* send is the last call made, and the function then returns -1.
C7_StepsInOrderAndAbortOnFailure ==
    /\ Len(EchoCalls) <= Len(EchoOrder)
    /\ \A i \in 1..Len(EchoCalls) : EchoCalls[i].op = EchoOrder[i]
    /\ \A i \in 1..Len(EchoCalls) :
          EchoStepFailed(EchoCalls[i]) =>
              /\ i = Len(EchoCalls)
              /\ tsr_ret \in {NotReturned, Returned(-1)}
              /\ pc["main"] \notin {"t_resolve", "t_setup", "t_connect", "t_send", "t_recv",
                                    "t_close"}

\* C7 witness: hostname resolution failed and test_send_recv returned -1
\* having made no call after it
C7_Witness ==
    /\ tsr_ret = Returned(-1)
    /\ Len(EchoCalls) = 2
    /\ EchoCalls[2] = Call("iface.gethostbyname", NSAPI_ERROR_DNS_FAILURE)

\* C8: when test_send_recv has returned and sock.open() had succeeded, the
\* socket is closed.
C8_SocketClosedAtReturn ==
    (/\ tsr_ret # NotReturned
     /\ Len(EchoCalls) >= 1
     /\ EchoCalls[1] = Call("sock.open", NSAPI_ERROR_OK)) => sock = "closed"

\* C8 witness: test_send_recv returned after a failed send (no sock.close()
\* call was made) and the socket is closed
C8_Witness ==
    /\ tsr_ret = Returned(-1)
    /\ \E i \in 1..Len(EchoCalls) :
          EchoCalls[i].op \in {"sock.send", "sock.sendto"} /\ EchoCalls[i].ret < 0
    /\ ~EchoCalled("sock.close")
    /\ sock = "closed"

\* C9: whenever test_send_recv has returned -1, it has printed an error
\* message for the failing step.
C9_EveryFailureReported ==
    tsr_ret = Returned(-1) => \E text \in EchoErrorTexts : MainPrinted(text)

\* C10: no two threads are inside the trace_mutex critical section at once:
\* neither main and the Progress Indicator inside print_function, nor either of
\* them with a thread tracing between trace_wait and trace_release; a thread
\* inside the section is the owner of trace_mutex.
C10_ConsoleMutualExclusion ==
    /\ \A t1, t2 \in Threads :
          (InCriticalSection(t1) /\ InCriticalSection(t2)) => t1 = t2
    /\ \A t \in Threads : InCriticalSection(t) => trace_mutex = t

\* C10 witness: the Progress Indicator is inside print_function while main has
\* called print_function and is waiting for the lock
C10_Witness ==
    /\ InCriticalSection("dot")
    /\ pc["main"] \in PrintLabels
    /\ ~InCriticalSection("main")

\* the Progress Indicator thread was started / has left its loop
DotStarted == pc["dot"] # "d_idle"
DotExited == pc["dot"] = "d_done"
\* the step in which the Progress Indicator writes its dot (line 110)
DotWrites == pstep["dot"] = "locked" /\ pstep'["dot"] = "printed"

\* C11: the Progress Indicator writes its "." only in a state in which the
\* interface is not connected and main has not printed "Connection
\* Established"; once it has left its loop it writes nothing more.
C11_NoDotWhileConnected ==
    [][/\ DotWrites => (~connected /\ ~MainPrinted(ESTABLISHED))
       /\ DotExited => (DotExited' /\ out'["dot"] = out["dot"])]_vars

\* C11 as amended: each poll of dot_event (line 120) that finds the interface
\* not connected goes on to print, each poll that finds it connected leaves the
\* loop; a "." is written only in an iteration whose poll found the interface
\* not connected, and once dot_event has left its loop it stays out of it and
\* writes nothing more.
C11_DotFollowsItsLastPoll ==
    [][/\ (pc["dot"] = "d_check" /\ pc'["dot"] # "d_check") =>
             pc'["dot"] = (IF connected THEN "d_done" ELSE "d_print")
       /\ DotWrites => pc["dot"] = "d_print"
       /\ DotExited => (DotExited' /\ out'["dot"] = out["dot"] /\ pstep'["dot"] = "out")]_vars

\* C11 witness: dot_event printed while the interface was not connected, then
\* found it connected and left its loop, and main printed "Connection Established"
C11_Witness ==
    /\ DotExited
    /\ Len(out["dot"]) >= 1
    /\ connected
    /\ MainPrinted(ESTABLISHED)

\* C12: in every run in which the Progress Indicator was started, it
\* eventually leaves its loop.
C12_DotEventuallyExits ==
    [](DotStarted => <>DotExited)

\* C12 as amended: in every run in which the Progress Indicator was started
\* and main ends with the interface connected, the Progress Indicator
\* eventually leaves its loop.  (When main ends with the interface not
\* connected, dot_event polls forever.)
C12_DotExitsOnceConnected ==
    (DotStarted /\ pc["main"] = "done" /\ connected) ~> DotExited

\* C12 witness: main is done with the interface connected and the Progress
\* Indicator has left its loop
C12_Witness ==
    /\ pc["main"] = "done"
    /\ connected
    /\ DotExited

\* C13: the tracing subsystem is initialized once, before main prints or calls
\* the interface, and torn down once on every exit path: when main returns,
\* trace_open and trace_close have each run exactly once, and from trace_close
\* on the last message main printed is the final Success/Failure message,
\* main being past every print_function call.
C13_TraceOpenedAndClosedOnce ==
    /\ traceInits <= 1
    /\ traceFrees <= traceInits
    /\ (Len(out["main"]) > 0 \/ InCriticalSection("main") \/ cfg # {} \/ calls # <<>>
           \/ DotStarted) => traceInits = 1
    /\ traceFrees = 1 =>
          /\ LastMainText \in {SUCCESS, FAILURE}
          /\ pc["main"] \in {"m_return_ok", "m_return_fail", "done"}
          /\ ~InCriticalSection("main")
    /\ exitCode # NotReturned => (traceInits = 1 /\ traceFrees = 1)

\* C13 witness: main returned -1 after a failed connect, with the tracing
\* subsystem opened once and closed once
C13_Witness ==
    /\ exitCode = Returned(-1)
    /\ dc_ret # Returned(NSAPI_ERROR_OK)
    /\ traceInits = 1
    /\ traceFrees = 1

\* the shared objects a thread's next step reads and writes
Reads(t) ==
    IF t = "dot"
       THEN (IF pc[t] = "d_check" THEN {"connected"} ELSE {})
       ELSE CASE pc[t] = "c_while" -> {"connected"}
              [] pc[t] = "c_connect" -> {"retry_counter"}
              [] pc[t] = "c_retry_inc" -> {"retry_counter"}
              [] pc[t] \in {"c_fatal_print", "c_retry_print", "t_open_fail_print",
                            "t_resolve_fail_print", "t_connect_fail_print",
                            "t_connected_print", "t_send_fail_print", "t_sent_print",
                            "t_received_print"} -> {"print_text"}
              [] OTHER -> {}
Writes(t) ==
    IF t = "dot"
       THEN {}
       ELSE CASE pc[t] = "c_entry" -> {"retry_counter"}
              [] pc[t] = "c_connect" -> {"connected", "print_text"}
              [] pc[t] = "c_retry_inc" -> {"retry_counter"}
              [] pc[t] = "t_open" -> {"sock", "print_text"}
              [] pc[t] = "t_resolve" -> {"print_text"}
              [] pc[t] = "t_setup" -> {"sock"}
              [] pc[t] \in {"t_connect", "t_send"} -> {"sock", "print_text"}
              [] pc[t] = "t_recv" -> {"sock", "recv_buf"}
              [] pc[t] \in {"t_close", "t_return_fail", "t_return_ok"} -> {"sock"}
              [] pc[t] = "t_check_n" -> {"print_text"}
              [] OTHER -> {}
\* main and the Progress Indicator are both about to access o, one of them writing
ConflictingAccess(o) ==
    \/ o \in Writes("main") /\ o \in Reads("dot") \cup Writes("dot")
    \/ o \in Writes("dot") /\ o \in Reads("main") \cup Writes("main")

\* a step of the Progress Indicator thread / of the main thread
DotStep == pc'["dot"] # pc["dot"] \/ pstep'["dot"] # pstep["dot"]
MainStep == pc'["main"] # pc["main"] \/ pstep'["main"] # pstep["main"]
mainOwned == <<connected, retry_counter, sock, recv_buf, print_text>>

\* C14: every step of dot_event leaves the connection state, retry_counter, the
\* socket, the receive buffer and print_text unchanged, only main writes them,
\* and in no state do main and the Progress Indicator both access one of them
\* with at least one of the two writing.
C14_NoSharedAccessAtAll ==
    \A o \in {"connected", "retry_counter", "sock", "recv_buf", "print_text"} :
        ~ConflictingAccess(o)

\* C14 as amended: every step of dot_event leaves the connection state,
\* retry_counter, the socket, the receive buffer and print_text unchanged, only
\* steps of main change them, and in no state do main and the Progress
\* Indicator both access retry_counter, the socket, the receive buffer or
\* print_text with one of them writing.  (The connection state is read by
\* dot_event's poll while main may be inside iface.connect().)
C14_DotIsObservational ==
    /\ [](\A o \in {"retry_counter", "sock", "recv_buf", "print_text"} :
             ~ConflictingAccess(o))
    /\ [][DotStep => UNCHANGED mainOwned]_vars
    /\ [][mainOwned' # mainOwned => MainStep]_vars

\* C14 witness: the Progress Indicator has polled and printed, and is about to
\* poll again, while main is in the echo transaction with its socket open and
\* data in the receive buffer
C14_Witness ==
    /\ pc["dot"] = "d_check"
    /\ Len(out["dot"]) >= 1
    /\ sock = "open"
    /\ recv_buf > 0

\* C15: when the first iface.connect() returned a retryable error and the
\* second returned NSAPI_ERROR_OK, no third call is made and do_connect returns
\* NSAPI_ERROR_OK, having printed one "will retry" notice and then "Connection
\* Established"; when the echo transaction then received a 4-byte reply, main
\* returns 0.
C15_ConnectsOnSecondAttempt ==
    (/\ Len(ConnectCalls) >= 2
     /\ Retryable(ConnectCalls[1].ret)
     /\ ConnectCalls[2].ret = NSAPI_ERROR_OK) =>
        /\ Len(ConnectCalls) = 2
        /\ dc_ret \in {NotReturned, Returned(NSAPI_ERROR_OK)}
        /\ TimesMainPrinted(WILL_RETRY) = 1
        /\ ~MainPrinted(FATAL_FAILURE) /\ ~MainPrinted(AUTH_FAILURE)
        /\ dc_ret # NotReturned =>
              /\ TimesMainPrinted(ESTABLISHED) = 1
              /\ \A i, j \in 1..Len(out["main"]) :
                    (out["main"][i].text = WILL_RETRY /\ out["main"][j].text = ESTABLISHED)
                        => i < j
        /\ (exitCode # NotReturned /\ ReceiveCalled /\ ReceiveResult = RECV_BUF_SIZE) =>
              exitCode = Returned(0)

\* C15 witness: connected on the second attempt, received 4 bytes, main returned 0
C15_Witness ==
    /\ Len(ConnectCalls) = 2
    /\ Retryable(ConnectCalls[1].ret)
    /\ ConnectCalls[2].ret = NSAPI_ERROR_OK
    /\ ReceiveCalled
    /\ ReceiveResult = RECV_BUF_SIZE
    /\ exitCode = Returned(0)

\* C16: the modem debug flag, the SIM PIN and the credentials are all set
\* before the first iface.connect() call and before the Progress Indicator is
\* started; the echo transaction (any socket call) happens only after
\* do_connect returned NSAPI_ERROR_OK, and at most once in a run.
C16_MainStepsInOrder ==
    /\ (Len(ConnectCalls) >= 1 \/ DotStarted \/ pc["main"] = "c_entry") =>
          cfg = {"modem_debug_on", "set_sim_pin", "set_credentials"}
    /\ (EchoCalls # <<>> \/ tsr_ret # NotReturned \/ pc["main"] = "t_open") =>
          dc_ret = Returned(NSAPI_ERROR_OK)
    /\ Cardinality({i \in 1..Len(EchoCalls) : EchoCalls[i].op = "sock.open"}) <= 1
    /\ tsr_ret # NotReturned => pc["main"] \notin {"t_open", "m_check_connect"}

\* C16 witness: do_connect failed and main returned without any socket call,
\* the Progress Indicator having been started
C16_Witness ==
    /\ exitCode = Returned(-1)
    /\ dc_ret = Returned(NSAPI_ERROR_AUTH_FAILURE)
    /\ EchoCalls = <<>>
    /\ DotStarted

\* C17: retry_counter never exceeds RETRY_COUNT + 1 (so the uint8_t never
\* wraps), do_connect makes at most RETRY_COUNT + 2 calls to iface.connect(),
\* and after the call made with retry_counter = RETRY_COUNT + 1 it is on its
\* way out of the loop.
C17_RetryCounterBounded ==
    /\ retry_counter <= RETRY_COUNT + 1
    /\ Len(ConnectCalls) <= RETRY_COUNT + 2
    /\ Len(ConnectCalls) = RETRY_COUNT + 2 =>
          pc["main"] \notin {"c_while", "c_connect", "c_retry_print", "c_retry_inc"}

\* C17 witness: do_connect returned after its fifth iface.connect() call, made
\* with retry_counter = 4
C17_Witness ==
    /\ dc_ret # NotReturned
    /\ retry_counter = RETRY_COUNT + 1
    /\ Len(ConnectCalls) = RETRY_COUNT + 2

\* the most recent iface.connect() call
LastConnect == ConnectCalls[Len(ConnectCalls)]
\* the step in which main calls iface.connect()
ConnectStep == Len(calls') > Len(calls) /\ IsConnectCall(calls'[Len(calls')])

\* C18: do_connect returns NSAPI_ERROR_OK exactly when its loop ended at a loop
\* check that found the interface connected (at entry, with no connect call, or
\* after a failed attempt that was to be retried, whose error is discarded) or
\* when a connect() call returned NSAPI_ERROR_OK; a non-OK value it returns is
\* the result of the most recent connect() call; iface.connect() is called
\* only with the interface not connected.
C18_ReturnValueOfDoConnect ==
    /\ [](dc_ret # NotReturned =>
            /\ dc_ret = Returned(NSAPI_ERROR_OK) <=>
                  \/ Len(ConnectCalls) = 0 /\ connected
                  \/ Len(ConnectCalls) > 0 /\ LastConnect.ret = NSAPI_ERROR_OK
                  \/ /\ Len(ConnectCalls) > 0
                     /\ Retryable(LastConnect.ret)
                     /\ Len(ConnectCalls) <= RETRY_COUNT + 1
                     /\ connected
            /\ dc_ret # Returned(NSAPI_ERROR_OK) =>
                  (Len(ConnectCalls) > 0 /\ dc_ret = Returned(LastConnect.ret)))
    /\ [][ConnectStep => ~connected]_vars

\* C18 witness: do_connect returned NSAPI_ERROR_OK although its last
\* iface.connect() call returned an error, the loop check having found the
\* interface connected
C18_Witness ==
    /\ dc_ret = Returned(NSAPI_ERROR_OK)
    /\ Len(ConnectCalls) > 0
    /\ Retryable(LastConnect.ret)

\* C19: the owner of trace_mutex is always a thread inside print_function (or
\* between trace_wait and trace_release) that can take its next step: it is
\* never sleeping in wait(4), never inside connect/resolve/send/receive and
\* never a thread that has left the critical section, so main and the
\* Progress Indicator never both wait for a lock that is not given back.
C19_LockHolderCanProceed ==
    /\ trace_mutex # "none" =>
          /\ InCriticalSection(trace_mutex)
          /\ pc[trace_mutex] \in PrintLabels \cup {"c_tr_info", "l_run"}
    /\ \A t \in Threads : InCriticalSection(t) =>
          pc[t] \in PrintLabels \cup {"c_tr_info", "l_run"}
    /\ (/\ pc["main"] \in PrintLabels /\ ~InCriticalSection("main")
        /\ pc["dot"] \in PrintLabels /\ ~InCriticalSection("dot")) =>
          (trace_mutex \in {"none", "lib"})

\* C19 witness: main is inside print_function holding the lock while the
\* Progress Indicator has called print_function and waits for it
C19_Witness ==
    /\ InCriticalSection("main")
    /\ trace_mutex = "main"
    /\ pc["dot"] = "d_print"
    /\ ~InCriticalSection("dot")

====
